---- MODULE Spec2Model ----
(***************************************************************************)
(* Rainfall dashboard (src/app.py): the rainfall classifier, the daily     *)
(* summary (show_24_hourly_dashboard) with its zonal summary, the 2-hourly *)
(* tab (tab_hourly) with its long form, and the date buttons.              *)
(*                                                                         *)
(* Numbers.  A pandas/NumPy float is modelled as an exact rational in      *)
(* tenths of a millimetre, [nan, num, den] standing for num/den tenths, or *)
(* for NaN when nan is TRUE.  Sheet values carry one decimal, so a cell is *)
(* num/1; a mean is sum/count.  Binary rounding of float64 is not          *)
(* modelled.                                                               *)
(***************************************************************************)
EXTENDS Integers, Sequences, FiniteSets

VARIABLES
    pc,         \* which handler has run, and how it ended
    rainfall,   \* <<v1, v2>>: the arguments of two calls of classify_rainfall
    category,   \* <<c1, c2>>: what the two calls returned
    sheet_24hr, \* the daily worksheet as Google Sheets holds it
    df,         \* show_24_hourly_dashboard's frame after its column clean-up
    state_avg,
    more_than_200_daily,
    more_than_100_daily,
    more_than_50_daily,
    district_rainfall_avg_df,
    df_top_10,
    zonal_summary_averages, \* what get_zonal_data gave: [raised, empty, rows]
    sheet_2hr,  \* the 2-hourly worksheet as Google Sheets holds it
    df_2hr,     \* tab_hourly's frame with its slot columns numeric and Total_mm
    existing_order,
    df_long,    \* the long form: one row per (District, Taluka, Time Slot)
    top_taluka_row,
    num_talukas_with_rain_hourly,
    last_slot_label,
    selected_date, \* st.session_state.selected_date, as a day number
    nav_history    \* the last two button presses: [button, from]

classifier_vars == <<rainfall, category>>

daily_vars == <<sheet_24hr, df, state_avg, more_than_200_daily, more_than_100_daily,
                more_than_50_daily, district_rainfall_avg_df, df_top_10,
                zonal_summary_averages>>

hourly_vars == <<sheet_2hr, df_2hr, existing_order, df_long, top_taluka_row,
                 num_talukas_with_rain_hourly, last_slot_label>>

nav_vars == <<selected_date, nav_history>>

vars == <<pc, classifier_vars, daily_vars, hourly_vars, nav_vars>>

-----------------------------------------------------------------------------
(* Numbers *)

NaN == [nan |-> TRUE, num |-> 0, den |-> 1]

Rat(n, d) == [nan |-> FALSE, num |-> n, den |-> d]

Val(n) == Rat(n, 1)

isna(x) == x.nan

\* x <= t and x > t for a number x that is not NaN and a literal t in tenths
\* of a millimetre.  Every comparison with NaN is False in Python.
Le(x, t) == ~x.nan /\ x.num <= t * x.den

Gt(x, t) == ~x.nan /\ x.num > t * x.den

Lt(x, t) == ~x.nan /\ x.num < t * x.den

EqLit(x, t) == ~x.nan /\ x.num = t * x.den

\* x <= y and x = y for two numbers that are not NaN
NumLe(x, y) ==
    IF x.den = y.den THEN x.num <= y.num ELSE x.num * y.den <= y.num * x.den

NumEq(x, y) ==
    /\ x.nan = y.nan
    /\ ~x.nan => IF x.den = y.den THEN x.num = y.num ELSE x.num * y.den = y.num * x.den

-----------------------------------------------------------------------------
(* RAINFALL CATEGORY LOGIC *)

\* color_map and category_ranges: dicts, as sequences of <<key, value>>
color_map ==
    << <<"No Rain", "#f8f8f8">>, <<"Very Light", "#e0ffe0">>, <<"Light", "#00ff01">>,
       <<"Moderate", "#00ffff">>, <<"Rather Heavy", "#ffeb3b">>, <<"Heavy", "#ff8c00">>,
       <<"Very Heavy", "#d50000">>, <<"Extremely Heavy", "#f820fe">>,
       <<"Exceptional", "#e8aaf5">> >>

category_ranges ==
    << <<"No Rain", "0 mm">>, <<"Very Light", "0.1 - 2.4 mm">>,
       <<"Light", "2.5 - 7.5 mm">>, <<"Moderate", "7.6 - 35.5 mm">>,
       <<"Rather Heavy", "35.6 - 64.4 mm">>, <<"Heavy", "64.5 - 124.4 mm">>,
       <<"Very Heavy", "124.5 - 244.4 mm">>, <<"Extremely Heavy", "244.5 - 350 mm">>,
       <<"Exceptional", "> 350 mm">> >>

dict_keys(dict) == {dict[k][1] : k \in DOMAIN dict}

ordered_categories ==
    << "No Rain", "Very Light", "Light", "Moderate", "Rather Heavy",
       "Heavy", "Very Heavy", "Extremely Heavy", "Exceptional" >>

\* classify_rainfall with "rainfall < 2.4" for "rainfall <= 2.4"
classify_rainfall_strict(x) ==
    IF isna(x) \/ EqLit(x, 0) THEN "No Rain"
    ELSE IF Gt(x, 0) /\ Lt(x, 24) THEN "Very Light"
    ELSE IF Le(x, 75) THEN "Light"
    ELSE IF Le(x, 355) THEN "Moderate"
    ELSE IF Le(x, 644) THEN "Rather Heavy"
    ELSE IF Le(x, 1244) THEN "Heavy"
    ELSE IF Le(x, 2444) THEN "Very Heavy"
    ELSE IF Le(x, 3500) THEN "Extremely Heavy"
    ELSE "Exceptional"

\* classify_rainfall with the returns of the 35.5 and 64.4 branches exchanged
classify_rainfall_swapped(x) ==
    IF isna(x) \/ EqLit(x, 0) THEN "No Rain"
    ELSE IF Gt(x, 0) /\ Le(x, 24) THEN "Very Light"
    ELSE IF Le(x, 75) THEN "Light"
    ELSE IF Le(x, 355) THEN "Rather Heavy"
    ELSE IF Le(x, 644) THEN "Moderate"
    ELSE IF Le(x, 1244) THEN "Heavy"
    ELSE IF Le(x, 2444) THEN "Very Heavy"
    ELSE IF Le(x, 3500) THEN "Extremely Heavy"
    ELSE "Exceptional"

\* classify_rainfall with "rainfall <= 0" for "rainfall == 0"
classify_rainfall_nonpositive(x) ==
    IF isna(x) \/ Le(x, 0) THEN "No Rain"
    ELSE IF Gt(x, 0) /\ Le(x, 24) THEN "Very Light"
    ELSE IF Le(x, 75) THEN "Light"
    ELSE IF Le(x, 355) THEN "Moderate"
    ELSE IF Le(x, 644) THEN "Rather Heavy"
    ELSE IF Le(x, 1244) THEN "Heavy"
    ELSE IF Le(x, 2444) THEN "Very Heavy"
    ELSE IF Le(x, 3500) THEN "Extremely Heavy"
    ELSE "Exceptional"

\* classify_rainfall with one label misspelt
classify_rainfall_misspelt(x) ==
    IF isna(x) \/ EqLit(x, 0) THEN "No Rain"
    ELSE IF Gt(x, 0) /\ Le(x, 24) THEN "Very Light"
    ELSE IF Le(x, 75) THEN "Light"
    ELSE IF Le(x, 355) THEN "Moderate"
    ELSE IF Le(x, 644) THEN "Rather Heavy"
    ELSE IF Le(x, 1244) THEN "Heavy"
    ELSE IF Le(x, 2444) THEN "Very Heavy"
    ELSE IF Le(x, 3500) THEN "Extremly Heavy"
    ELSE "Exceptional"

\* classify_rainfall, lines 135-153
classify_rainfall(x) ==
    IF isna(x) \/ EqLit(x, 0) THEN "No Rain"
    ELSE IF Gt(x, 0) /\ Le(x, 24) THEN "Very Light"
    ELSE IF Le(x, 75) THEN "Light"
    ELSE IF Le(x, 355) THEN "Moderate"
    ELSE IF Le(x, 644) THEN "Rather Heavy"
    ELSE IF Le(x, 1244) THEN "Heavy"
    ELSE IF Le(x, 2444) THEN "Very Heavy"
    ELSE IF Le(x, 3500) THEN "Extremely Heavy"
    ELSE "Exceptional"

-----------------------------------------------------------------------------
(* Worksheets and frames *)

\* A worksheet cell as gspread's get_all_records hands it over: a number, an
\* empty string, a string that reads as a number, or any other string.
Number(n) == [kind |-> "number", val |-> n]

NumStr(n) == [kind |-> "numstr", val |-> n]

Blank == [kind |-> "blank", val |-> 0]

Text == [kind |-> "text", val |-> 0]

\* a zone name; val tells the names apart
ZoneName(k) == [kind |-> "text", val |-> k]

\* to_numeric reading a string that is no number as 0
to_numeric_text_as_zero(c) ==
    IF c.kind \in {"number", "numstr"} THEN Val(c.val)
    ELSE IF c.kind = "text" THEN Val(0) ELSE NaN

\* pd.to_numeric(..., errors="coerce") on one cell
to_numeric(c) == IF c.kind \in {"number", "numstr"} THEN Val(c.val) ELSE NaN

\* str.strip() on the names the worksheets of this model hold
strip(s) ==
    CASE s = " Kutch" -> "Kutch"
      [] s = "Dangs " -> "Dangs"
      [] s = " Mandvi" -> "Mandvi"
      [] s = "Mandvi " -> "Mandvi"
      [] OTHER -> s

\* The strings this model compares, in the ascending order Python gives them
\* (by code point: space, digits, capitals).
string_order ==
    << " Mandvi", "02TO04", "04TO06", "06TO08", "08TO10", "10TO12", "12TO14",
       "14TO16", "16TO18", "18TO20", "20TO22", "22TO24", "24TO02",
       "Amod", "Bardoli", "Kutch", "Mandvi", "Mandvi ", "Surat" >>

str_rank(a) == CHOOSE i \in DOMAIN string_order : string_order[i] = a

str_lt(a, b) == str_rank(a) < str_rank(b)

\* A worksheet is [found, columns, rows]: found is whether the spreadsheet
\* and the tab exist, columns the headers of the value columns, and a row
\* [DISTRICT, TALUKA, cells] with cells a function on columns.
EmptyFrame == [columns |-> {}, rows |-> << >>]

\* an emptiness test that lets every frame through
empty_never(frame) == FALSE

empty(frame) == frame.rows = << >>

rename(frame, old, new) ==
    IF old \notin frame.columns THEN frame
    ELSE [columns |-> (frame.columns \ {old}) \cup {new},
          rows |-> [i \in DOMAIN frame.rows |->
                      [frame.rows[i] EXCEPT !.cells =
                          [c \in (frame.columns \ {old}) \cup {new} |->
                              IF c = new THEN frame.rows[i].cells[old]
                              ELSE frame.rows[i].cells[c]]]]]

\* load_sheet_data: DISTRICT and TALUKA are always renamed, TOTAL is renamed
\* Total_mm when the sheet has it, and any failure gives an empty frame.
load_sheet_data(sheet) ==
    IF ~sheet.found \/ sheet.rows = << >> THEN EmptyFrame
    ELSE rename([columns |-> sheet.columns,
                 rows |-> [i \in DOMAIN sheet.rows |->
                             [District |-> sheet.rows[i].DISTRICT,
                              Taluka |-> sheet.rows[i].TALUKA,
                              cells |-> sheet.rows[i].cells]]],
                "TOTAL", "Total_mm")

-----------------------------------------------------------------------------
(* Series reductions *)

notna(xs) == {i \in DOMAIN xs : ~isna(xs[i])}

RECURSIVE SumOver(_, _)
SumOver(I, xs) ==
    IF I = {} THEN 0
    ELSE LET i == CHOOSE j \in I : TRUE IN xs[i].num + SumOver(I \ {i}, xs)

\* mean dividing by the number of rows, missing ones included
mean_count_all(I, xs) ==
    LET J == {i \in I : ~isna(xs[i])}
    IN  IF J = {} THEN NaN ELSE Rat(SumOver(J, xs), Cardinality(I))

\* Series.mean(): NaN is skipped, and the mean of nothing is NaN
mean(I, xs) ==
    LET J == {i \in I : ~isna(xs[i])}
    IN  IF J = {} THEN NaN ELSE Rat(SumOver(J, xs), Cardinality(J))

\* the count with >= for >
count_ge(xs, t) == Cardinality({i \in DOMAIN xs : Gt(xs[i], t) \/ EqLit(xs[i], t)})

\* df[df[col] > t].shape[0]
count_gt(xs, t) == Cardinality({i \in DOMAIN xs : Gt(xs[i], t)})

\* the sort with ascending=True
RECURSIVE sort_values_asc(_, _)
sort_values_asc(I, xs) ==
    IF I = {} THEN { << >> }
    ELSE LET top == {i \in I : \A j \in I : NumLe(xs[i], xs[j])}
         IN  UNION { { <<i>> \o s : s \in sort_values_asc(I \ {i}, xs) } : i \in top }

\* sort_values(by=col, ascending=False) on the rows I whose value is not NaN:
\* the orders of I in which the values never increase.  The default sort kind
\* (quicksort) is not stable, so rows with equal values come in any order.
RECURSIVE sort_values(_, _)
sort_values(I, xs) ==
    IF I = {} THEN { << >> }
    ELSE LET top == {i \in I : \A j \in I : NumLe(xs[j], xs[i])}
         IN  UNION { { <<i>> \o s : s \in sort_values(I \ {i}, xs) } : i \in top }

head_10(s) == SubSeq(s, 1, IF Len(s) < 10 THEN Len(s) ELSE 10)

-----------------------------------------------------------------------------
(* Daily Summary tab *)

district_name_mapping(d) ==
    CASE d = "Chhota Udepur" -> "Chhota Udaipur"
      [] d = "Dangs" -> "Dang"
      [] d = "Kachchh" -> "Kutch"
      [] d = "Mahesana" -> "Mehsana"
      [] OTHER -> d

\* Lines 428-456: the frame with Rain_Last_24_Hrs renamed, Total_mm made
\* numeric and District mapped and stripped.
daily_frame(df_24hr) ==
    LET r == rename(df_24hr, "Rain_Last_24_Hrs", "Total_mm")
    IN  [i \in DOMAIN r.rows |->
            [index |-> i,
             District |-> strip(district_name_mapping(r.rows[i].District)),
             Taluka |-> r.rows[i].Taluka,
             Total_mm |-> to_numeric(r.rows[i].cells["Total_mm"])]]

Total_mm_of(frame) == [i \in DOMAIN frame |-> frame[i].Total_mm]

\* df.groupby('District')['Total_mm'].mean() with each mean classified
district_avg(frame) ==
    { LET avg == mean({i \in DOMAIN frame : frame[i].District = d}, Total_mm_of(frame))
      IN  [District |-> d,
           District_Avg_Rain_Last_24_Hrs |-> avg,
           Rainfall_Category |-> classify_rainfall(avg)]
      : d \in {frame[i].District : i \in DOMAIN frame} }

\* df["Total_mm"].mean() if not df["Total_mm"].isnull().all() else 0.0
state_avg_of(frame) ==
    IF notna(Total_mm_of(frame)) = {} THEN Val(0)
    ELSE mean(DOMAIN frame, Total_mm_of(frame))

\* df.dropna(subset=['Total_mm']).sort_values(by='Total_mm', ascending=False)
top_orders(frame) == sort_values(notna(Total_mm_of(frame)), Total_mm_of(frame))

\* col.replace(' ', '').lower() on the headers the worksheets of this model
\* hold
clean_col(col) ==
    CASE col = "Zone" -> "zone"
      [] col = "Avg_Rain" -> "avg_rain"
      [] col = "Rain_Till_Yesterday" -> "rain_till_yesterday"
      [] col = "Total_Rainfall" -> "total_rainfall"
      [] col = "Percent_Against_Avg" -> "percent_against_avg"
      [] col = "Percent Against Avg" -> "percentagainstavg"
      [] col = "Rain_Last_24_Hrs" -> "rain_last_24_hrs"
      [] col = "Total_mm" -> "total_mm"
      [] col = "TOTAL" -> "total"
      [] col = "RAIN" -> "rain"
      [] OTHER -> col

\* the columns whose cleaned name is the pattern; the worksheets of this
\* model hold at most one, so "the first" of them is that one
find_column_with_fuzzy_match(df_columns, pattern) ==
    {col \in df_columns : clean_col(col) = pattern}

required_cols_map ==
    {"zone", "avg_rain", "rain_till_yesterday", "total_rainfall", "percent_against_avg"}

zonal_value_columns ==
    {"avg_rain", "rain_till_yesterday", "rain_last_24_hrs", "total_rainfall",
     "percent_against_avg"}

NoZonalData == [raised |-> FALSE, empty |-> TRUE, rows |-> {}]

\* get_zonal_data: an empty frame when a required column has no match; a
\* KeyError from the column selection when the frame has no column named
\* 'rain_last_24_hrs'; else one row per value of the zone column.  The zone
\* column itself goes through to_numeric with the other required columns, so
\* a zone name becomes NaN, groupby drops it, and reindex gives a row without
\* a value for it.  The rounding of the means to two decimals is not modelled.
get_zonal_data(zonal_frame) ==
    LET found_cols == [name \in required_cols_map |->
                          find_column_with_fuzzy_match(zonal_frame.columns, name)]
        actual(name) == IF name \in required_cols_map
                        THEN CHOOSE col \in found_cols[name] : TRUE
                        ELSE name
        value(i, name) == to_numeric(zonal_frame.rows[i].cells[actual(name)])
        unique_zones == {value(i, "zone") : i \in DOMAIN zonal_frame.rows}
        members(zone) == {i \in DOMAIN zonal_frame.rows : value(i, "zone") = zone}
    IN  IF \E name \in required_cols_map : found_cols[name] = {}
        THEN NoZonalData
        ELSE IF "rain_last_24_hrs" \notin
                   (zonal_frame.columns \ {actual(name) : name \in required_cols_map})
             THEN [raised |-> TRUE, empty |-> TRUE, rows |-> {}]
             ELSE [raised |-> FALSE, empty |-> FALSE,
                   rows |-> { [zone |-> zone,
                               means |-> [name \in zonal_value_columns |->
                                            IF isna(zone) THEN NaN
                                            ELSE mean(members(zone),
                                                      [i \in DOMAIN zonal_frame.rows |->
                                                          value(i, name)])]]
                              : zone \in unique_zones }]

\* Lines 430-730.  The tiles (lines 462-500) are drawn before the zonal
\* section (lines 511-548); an exception raised there ends the run before the
\* district means (line 554) and the top 10 (line 730).  When get_zonal_data
\* returns rows, create_zonal_dual_axis_chart reads data['Zone'] from a frame
\* whose column is 'zone' and raises KeyError at line 545.
show_24_hourly_dashboard(df_24hr) ==
    IF "Total_mm" \notin rename(df_24hr, "Rain_Last_24_Hrs", "Total_mm").columns
    THEN /\ pc' = "daily_error"
         /\ UNCHANGED <<df, state_avg, more_than_200_daily, more_than_100_daily,
                        more_than_50_daily, district_rainfall_avg_df, df_top_10,
                        zonal_summary_averages>>
    ELSE LET frame == daily_frame(df_24hr)
             df_daily_for_zonal ==
                 rename(rename(df_24hr, "Rain_Last_24_Hrs", "Total_mm"),
                        "Total_mm", "Rain_Last_24_Hrs")
             zonal == get_zonal_data(df_daily_for_zonal)
         IN  /\ df' = frame
             /\ state_avg' = state_avg_of(frame)
             /\ more_than_200_daily' = count_gt(Total_mm_of(frame), 2000)
             /\ more_than_100_daily' = count_gt(Total_mm_of(frame), 1000)
             /\ more_than_50_daily' = count_gt(Total_mm_of(frame), 500)
             /\ zonal_summary_averages' = zonal
             /\ IF zonal.raised \/ ~zonal.empty
                THEN /\ pc' = "daily_KeyError"
                     /\ UNCHANGED <<district_rainfall_avg_df, df_top_10>>
                ELSE /\ pc' = "daily_rendered"
                     /\ district_rainfall_avg_df' = district_avg(frame)
                     /\ \E order \in top_orders(frame) :
                           df_top_10' = [k \in DOMAIN head_10(order) |-> frame[order[k]]]

tab_daily ==
    /\ pc = "input"
    /\ LET df_24hr == load_sheet_data(sheet_24hr)
       IN  IF empty(df_24hr)
           THEN /\ pc' = "daily_warning"
                /\ UNCHANGED <<df, state_avg, more_than_200_daily, more_than_100_daily,
                               more_than_50_daily, district_rainfall_avg_df, df_top_10,
                               zonal_summary_averages>>
           ELSE show_24_hourly_dashboard(df_24hr)
    /\ UNCHANGED <<classifier_vars, sheet_24hr, hourly_vars, nav_vars>>

-----------------------------------------------------------------------------
(* Hourly Trends tab *)

time_slot_order ==
    << "06TO08", "08TO10", "10TO12", "12TO14", "14TO16", "16TO18",
       "18TO20", "20TO22", "22TO24", "24TO02", "02TO04", "04TO06" >>

slot_labels(slot) ==
    CASE slot = "06TO08" -> "6-8 AM"   [] slot = "08TO10" -> "8-10 AM"
      [] slot = "10TO12" -> "10-12 AM" [] slot = "12TO14" -> "12-2 PM"
      [] slot = "14TO16" -> "2-4 PM"   [] slot = "16TO18" -> "4-6 PM"
      [] slot = "18TO20" -> "6-8 PM"   [] slot = "20TO22" -> "8-10 PM"
      [] slot = "22TO24" -> "10-12 PM" [] slot = "24TO02" -> "12-2 AM"
      [] slot = "02TO04" -> "2-4 AM"   [] slot = "04TO06" -> "4-6 AM"

\* "TO" in col, on the headers the worksheets of this model hold.  The dtype
\* test of line 833 never excludes a column: get_all_records gives int64,
\* float64 or object columns only.
contains_TO(col) ==
    \/ \E k \in DOMAIN time_slot_order : time_slot_order[k] = col
    \/ col \in {"TOTAL", "10TO11"}

time_slot_columns(frame) == {col \in frame.columns : contains_TO(col)}

existing_order_of(frame) ==
    SelectSeq(time_slot_order, LAMBDA slot : slot \in time_slot_columns(frame))

Range(s) == {s[k] : k \in DOMAIN s}

\* df_2hr[existing_order].sum(axis=1) for one row: NaN is skipped and the sum
\* of nothing is 0
RECURSIVE row_sum(_, _)
row_sum(slots, cells) ==
    IF slots = {} THEN 0
    ELSE LET c == CHOOSE x \in slots : TRUE
         IN  (IF isna(cells[c]) THEN 0 ELSE cells[c].num) + row_sum(slots \ {c}, cells)

\* the row sum with skipna=False: missing as soon as one slot is missing
row_total_no_skipna(slots, cells) ==
    IF \E c \in slots : isna(cells[c]) THEN NaN ELSE Val(row_sum(slots, cells))

row_total(slots, cells) == Val(row_sum(slots, cells))

\* Total_mm summed over every column of the sheet that holds numbers
hourly_frame_all_columns(frame) ==
    LET order == existing_order_of(frame)
    IN  [i \in DOMAIN frame.rows |->
            LET numeric == [c \in Range(order) |-> to_numeric(frame.rows[i].cells[c])]
                every == [c \in frame.columns |-> to_numeric(frame.rows[i].cells[c])]
            IN  [index |-> i,
                 District |-> frame.rows[i].District,
                 Taluka |-> frame.rows[i].Taluka,
                 slots |-> numeric,
                 Total_mm |-> row_total(frame.columns, every)]]

\* Lines 838-841: the slot columns made numeric and Total_mm set to their sum
hourly_frame(frame) ==
    LET order == existing_order_of(frame)
    IN  [i \in DOMAIN frame.rows |->
            LET numeric == [c \in Range(order) |-> to_numeric(frame.rows[i].cells[c])]
            IN  [index |-> i,
                 District |-> frame.rows[i].District,
                 Taluka |-> frame.rows[i].Taluka,
                 slots |-> numeric,
                 Total_mm |-> row_total(Range(order), numeric)]]

\* Lines 843-848: melt lists the rows once for every slot of existing_order,
\* slot by slot
melt(frame, order) ==
    [p \in 1..(Len(order) * Len(frame)) |->
        LET slot == order[((p - 1) \div Len(frame)) + 1]
            row == frame[((p - 1) % Len(frame)) + 1]
        IN  [District |-> row.District, Taluka |-> row.Taluka,
             Total_mm |-> row.Total_mm, Time_Slot |-> slot,
             Rainfall_mm |-> row.slots[slot]]]

\* Line 849: dropna(subset=["Rainfall (mm)"])
dropna(long) == SelectSeq(long, LAMBDA r : ~isna(r.Rainfall_mm))

\* Line 850: df_long['Taluka'].str.strip()
strip_Taluka(long) ==
    [p \in DOMAIN long |-> [long[p] EXCEPT !.Taluka = strip(long[p].Taluka)]]

\* the group's value taken from its first row only
sum_Rainfall_first(long, ps) ==
    long[CHOOSE p \in ps : \A q \in ps : p <= q].Rainfall_mm.num

RECURSIVE sum_Rainfall(_, _)
sum_Rainfall(long, ps) ==
    IF ps = {} THEN 0
    ELSE LET p == CHOOSE x \in ps : TRUE
         IN  long[p].Rainfall_mm.num + sum_Rainfall(long, ps \ {p})

group_keys(long) ==
    { <<long[p].District, long[p].Taluka, long[p].Time_Slot>> : p \in DOMAIN long }

key_lt(k1, k2) ==
    \/ str_lt(k1[1], k2[1])
    \/ k1[1] = k2[1] /\ str_lt(k1[2], k2[2])
    \/ k1[1] = k2[1] /\ k1[2] = k2[2] /\ str_lt(k1[3], k2[3])

\* "Total_mm": "first": the total of the group's first row
first_Total_mm(long, ps) ==
    long[CHOOSE p \in ps : \A q \in ps : p <= q].Total_mm

\* Lines 852-855: groupby(["District", "Taluka", "Time Slot"]).agg(sum, first),
\* the groups in ascending order of their keys
groupby_agg(long) ==
    LET keys == group_keys(long)
        members(k) == {p \in DOMAIN long :
                         <<long[p].District, long[p].Taluka, long[p].Time_Slot>> = k}
        place == [k \in keys |-> 1 + Cardinality({k2 \in keys : key_lt(k2, k)})]
    IN  [n \in 1..Cardinality(keys) |->
            LET k == CHOOSE k1 \in keys : place[k1] = n
            IN  [District |-> k[1], Taluka |-> k[2], Time_Slot |-> k[3],
                 Rainfall_mm |-> Val(sum_Rainfall(long, members(k))),
                 Total_mm |-> first_Total_mm(long, members(k))]]

\* the position of a slot in the ordered Categorical of lines 863-867
slot_code(order, slot) == CHOOSE k \in DOMAIN order : order[k] = slot

\* the long form left in the order groupby gives it
sort_by_Taluka_and_slot_skipped(long, order) == long

\* Line 868: sort_values(by=["Taluka", "Time Slot Label"]); a sort on several
\* keys is pandas' lexsort, which keeps equal rows in their order
sort_by_Taluka_and_slot(long, order) ==
    LET before(p, q) ==
            \/ str_lt(long[p].Taluka, long[q].Taluka)
            \/ /\ long[p].Taluka = long[q].Taluka
               /\ slot_code(order, long[p].Time_Slot) < slot_code(order, long[q].Time_Slot)
            \/ /\ long[p].Taluka = long[q].Taluka
               /\ long[p].Time_Slot = long[q].Time_Slot
               /\ p < q
        place == [p \in DOMAIN long |-> 1 + Cardinality({q \in DOMAIN long : before(q, p)})]
    IN  [n \in DOMAIN long |-> long[CHOOSE p \in DOMAIN long : place[p] = n]]

\* Lines 843-868: df_long
long_form(frame, order) ==
    LET melted == melt(frame, order)
        kept == strip_Taluka(dropna(melted))
        grouped == groupby_agg(kept)
    IN  sort_by_Taluka_and_slot(grouped, order)

NA_row == [index |-> 0, Taluka |-> "N/A", Total_mm |-> Val(0)]

\* df_2hr.sort_values(by='Total_mm', ascending=False).iloc[0], or the N/A row
\* when no Total_mm is left after dropna
top_rows(frame) ==
    IF notna(Total_mm_of(frame)) = {} THEN {NA_row}
    ELSE { [index |-> i, Taluka |-> frame[i].Taluka, Total_mm |-> frame[i].Total_mm] :
             i \in {j \in DOMAIN frame :
                      \A k \in DOMAIN frame : NumLe(frame[k].Total_mm, frame[j].Total_mm)} }

tab_hourly ==
    /\ pc = "input"
    /\ LET loaded == load_sheet_data(sheet_2hr)
       IN  IF empty(loaded)
           THEN /\ pc' = "hourly_warning"
                /\ UNCHANGED <<df_2hr, existing_order, df_long, top_taluka_row,
                               num_talukas_with_rain_hourly, last_slot_label>>
           ELSE LET order == existing_order_of(loaded)
                    frame == hourly_frame(loaded)
                IN  /\ existing_order' = order
                    /\ df_2hr' = frame
                    /\ df_long' = long_form(frame, order)
                    /\ IF order = << >>
                       THEN \* existing_order[-1] raises IndexError at line 874
                            /\ pc' = "hourly_IndexError"
                            /\ UNCHANGED <<top_taluka_row, num_talukas_with_rain_hourly,
                                           last_slot_label>>
                       ELSE /\ pc' = "hourly_rendered"
                            /\ top_taluka_row' \in top_rows(frame)
                            /\ num_talukas_with_rain_hourly' =
                                   count_gt(Total_mm_of(frame), 0)
                            /\ last_slot_label' = slot_labels(order[Len(order)])
    /\ UNCHANGED <<classifier_vars, daily_vars, sheet_2hr, nav_vars>>

-----------------------------------------------------------------------------
(* Date navigation, lines 767-800 *)

\* datetime.today().date() as a day number; the days are counted from it
today == 0

\* the days the Previous Day button is followed back
MaxDaysBack == 20

pressed(button) ==
    nav_history' =
        IF nav_history = << >> THEN << [button |-> button, from |-> selected_date] >>
        ELSE << nav_history[Len(nav_history)], [button |-> button, from |-> selected_date] >>

PreviousDay ==
    /\ selected_date > today - MaxDaysBack
    /\ selected_date' = selected_date - 1
    /\ pressed("prev_day_btn")
    /\ UNCHANGED <<pc, classifier_vars, daily_vars, hourly_vars>>

Today ==
    /\ selected_date' = today
    /\ pressed("today_btn")
    /\ UNCHANGED <<pc, classifier_vars, daily_vars, hourly_vars>>

\* the Next Day button never disabled
NextDay_never_disabled ==
    /\ selected_date' = selected_date + 1
    /\ pressed("next_day_btn")
    /\ UNCHANGED <<pc, classifier_vars, daily_vars, hourly_vars>>

\* disabled=(selected_date >= datetime.today().date())
NextDay ==
    /\ ~(selected_date >= today)
    /\ selected_date' = selected_date + 1
    /\ pressed("next_day_btn")
    /\ UNCHANGED <<pc, classifier_vars, daily_vars, hourly_vars>>

-----------------------------------------------------------------------------
(* Inputs *)

\* Arguments of classify_rainfall are taken around each sample point p
\* (tenths of a millimetre) at p + k/Denominator for -MaxOffset <= k <=
\* MaxOffset, so 2.4 mm comes with 2.40001 mm and 2.39999 mm.
Denominator == 10000

MaxOffset == 2

SamplePoints == {-50, 0, 10, 24, 50, 75, 80, 355, 644, 1244, 2444, 3500, 5000}

ClassifyInputs ==
    {NaN} \cup { Rat(p * Denominator + k, Denominator) :
                    p \in SamplePoints, k \in (-MaxOffset)..MaxOffset }

\* A family of worksheets: the header sets, the names and the cells its rows
\* are drawn from.
Family(columnSets, districts, talukas, cellSet) ==
    [columnSets |-> columnSets, districts |-> districts, talukas |-> talukas,
     cells |-> cellSet]

FamilyRows(fam, cols) ==
    [DISTRICT : fam.districts, TALUKA : fam.talukas, cells : [cols -> fam.cells]]

NoSheet == [found |-> FALSE, columns |-> {}, rows |-> << >>]

MaxRows == 3

\* Daily worksheets: districts that the name mapping merges, each way the
\* total column can be headed, totals around the three thresholds, and
\* talukas with equal totals.
DailyFamilies ==
    { Family({{"Total_mm"}}, {"Dang", "Dangs", " Kutch"}, {"Mandvi"},
             {Blank, Text, Number(0), Number(100)}),
      Family({{"TOTAL"}, {"Rain_Last_24_Hrs"}, {"RAIN"}}, {"Kutch"}, {"Mandvi"},
             {Blank, Text, Number(100), NumStr(25)}),
      Family({{"Total_mm"}}, {"Kutch"}, {"Mandvi"},
             {Blank, Number(500), Number(501), Number(1000), Number(1001),
              Number(2000), Number(2001)}),
      Family({{"Total_mm"}}, {"Kutch"}, {"Amod", "Bardoli", "Mandvi"},
             {Blank, Number(10), Number(20)}) }

\* Daily worksheets with the columns of the zonal summary: every header
\* matched, every header matched and a column named 'rain_last_24_hrs' as
\* well, and one header that has no match.  Row i names zone z and holds the
\* last-24-hours total t.
MaxZonalRows == 2

ZonalColumnSets ==
    { {"Total_mm", "Zone", "Avg_Rain", "Rain_Till_Yesterday", "Total_Rainfall",
       "Percent_Against_Avg"},
      {"Rain_Last_24_Hrs", "Zone", "Avg_Rain", "Rain_Till_Yesterday", "Total_Rainfall",
       "Percent_Against_Avg", "rain_last_24_hrs"},
      {"Total_mm", "Zone", "Avg_Rain", "Rain_Till_Yesterday", "Total_Rainfall",
       "Percent Against Avg"} }

ZonalRow(cols, z, t) ==
    [DISTRICT |-> "Kutch", TALUKA |-> "Mandvi",
     cells |-> [c \in cols |->
                  IF c = "Zone" THEN ZoneName(z)
                  ELSE IF c \in {"Total_mm", "Rain_Last_24_Hrs"} THEN t
                  ELSE Number(50)]]

ZonalRows(cols) == {ZonalRow(cols, z, t) : z \in {1, 2}, t \in {Blank, Number(100)}}

\* Daily worksheets long enough for head(10) to cut: row i is either blank or
\* holds 1.0 mm times (i + 1) \div 2, so that rows 2k - 1 and 2k tie.
MaxTopRows == 11

TalukaList ==
    << "Amod", "Bardoli", "Chikhli", "Dhoraji", "Gandevi", "Halol", "Idar",
       "Jetpur", "Kadi", "Lathi", "Mandvi", "Nadiad", "Olpad", "Palitana" >>

TopSheet(n, present) ==
    [found |-> TRUE, columns |-> {"Total_mm"},
     rows |-> [i \in 1..n |->
                 [DISTRICT |-> "Kutch", TALUKA |-> TalukaList[i],
                  cells |-> [c \in {"Total_mm"} |->
                               IF i \in present THEN Number(10 * ((i + 1) \div 2))
                               ELSE Blank]]]]

MaxHourlyRows == 2

HourlyTextFamily ==
    Family({{}, {"TOTAL"}, {"06TO08"}, {"06TO08", "TOTAL"}, {"04TO06", "06TO08"}},
           {"Kutch"}, {"Mandvi"}, {Blank, Text, Number(30), Number(50)})

HourlyFamilies ==
    { HourlyTextFamily,
      Family({{"06TO08", "10TO11"}, {"06TO08", "REMARKS"}, {"10TO11"}},
             {"Kutch"}, {"Mandvi"}, {Blank, Number(30)}),
      Family({{"06TO08", "08TO10", "04TO06"}},
             {"Kutch"}, {"Mandvi"}, {Blank, Number(30), Number(50)}) }

\* 2-hourly worksheets with several rows for one unit, taluka names padded
\* with whitespace, and units out of name order.
MaxUnitRows == 2

UnitFamilies ==
    { Family({{"06TO08", "08TO10"}},
             {"Kutch", "Surat"}, {"Mandvi", " Mandvi", "Amod"}, {Blank, Number(20)}) }

InitClassifierIdle ==
    /\ rainfall = << NaN, NaN >>
    /\ category = << "", "" >>

InitDailyResults ==
    /\ df = << >>
    /\ state_avg = NaN
    /\ more_than_200_daily = 0
    /\ more_than_100_daily = 0
    /\ more_than_50_daily = 0
    /\ district_rainfall_avg_df = {}
    /\ df_top_10 = << >>
    /\ zonal_summary_averages = NoZonalData

InitDailyIdle ==
    /\ sheet_24hr = NoSheet
    /\ InitDailyResults

InitHourlyResults ==
    /\ df_2hr = << >>
    /\ existing_order = << >>
    /\ df_long = << >>
    /\ top_taluka_row = NA_row
    /\ num_talukas_with_rain_hourly = 0
    /\ last_slot_label = ""

InitHourlyIdle ==
    /\ sheet_2hr = NoSheet
    /\ InitHourlyResults

\* Lines 767-768: selected_date starts as today
InitNav ==
    /\ selected_date = today
    /\ nav_history = << >>

-----------------------------------------------------------------------------
(* Specifications *)

\* The classifier on its own: two calls on arbitrary arguments.
InitClassify ==
    /\ pc = "input"
    /\ InitNav
    /\ rainfall \in ClassifyInputs \X ClassifyInputs
    /\ category = << "", "" >>
    /\ InitDailyIdle
    /\ InitHourlyIdle

Classify ==
    /\ pc = "input"
    /\ category' = << classify_rainfall(rainfall[1]), classify_rainfall(rainfall[2]) >>
    /\ pc' = "classified"
    /\ UNCHANGED <<rainfall, daily_vars, hourly_vars, nav_vars>>

NextClassify == Classify

SpecClassify == InitClassify /\ [][NextClassify]_vars

\* One run of the Daily Summary tab on a worksheet.
Init ==
    /\ pc = "input"
    /\ InitNav
    /\ InitClassifierIdle
    /\ InitHourlyIdle
    /\ InitDailyResults
    /\ \/ sheet_24hr = NoSheet
       \/ \E fam \in DailyFamilies : \E cols \in fam.columnSets : \E k \in 0..MaxRows :
             \E r \in [1..k -> FamilyRows(fam, cols)] :
                sheet_24hr = [found |-> TRUE, columns |-> cols, rows |-> r]
       \/ \E cols \in ZonalColumnSets : \E k \in 1..MaxZonalRows :
             \E r \in [1..k -> ZonalRows(cols)] :
                sheet_24hr = [found |-> TRUE, columns |-> cols, rows |-> r]

Next == tab_daily

Spec == Init /\ [][Next]_vars

\* One run of the Daily Summary tab on a long worksheet.
InitTop ==
    /\ pc = "input"
    /\ InitNav
    /\ InitClassifierIdle
    /\ InitHourlyIdle
    /\ InitDailyResults
    /\ \E n \in 0..MaxTopRows : \E present \in SUBSET (1..n) :
          sheet_24hr = TopSheet(n, present)

NextTop == tab_daily

SpecTop == InitTop /\ [][NextTop]_vars

\* One run of the Hourly Trends tab on a worksheet.
InitHourly ==
    /\ pc = "input"
    /\ InitNav
    /\ InitClassifierIdle
    /\ InitDailyIdle
    /\ InitHourlyResults
    /\ \/ sheet_2hr = NoSheet
       \/ \E fam \in HourlyFamilies : \E cols \in fam.columnSets :
             \E k \in 0..MaxHourlyRows : \E r \in [1..k -> FamilyRows(fam, cols)] :
                sheet_2hr = [found |-> TRUE, columns |-> cols, rows |-> r]
       \/ \E fam \in UnitFamilies : \E cols \in fam.columnSets :
             \E k \in 1..MaxUnitRows : \E r \in [1..k -> FamilyRows(fam, cols)] :
                sheet_2hr = [found |-> TRUE, columns |-> cols, rows |-> r]

NextHourly == tab_hourly

SpecHourly == InitHourly /\ [][NextHourly]_vars

\* One run of the page in which one of the two worksheets is there and one of
\* the two tabs is looked at.
InitPage ==
    /\ pc = "input"
    /\ InitNav
    /\ InitClassifierIdle
    /\ InitDailyResults
    /\ InitHourlyResults
    /\ \/ /\ sheet_2hr = NoSheet
          /\ \/ sheet_24hr = NoSheet
             \/ \E fam \in DailyFamilies : \E cols \in fam.columnSets :
                   \E k \in 0..MaxRows : \E r \in [1..k -> FamilyRows(fam, cols)] :
                      sheet_24hr = [found |-> TRUE, columns |-> cols, rows |-> r]
       \/ /\ sheet_24hr = NoSheet
          /\ \E cols \in HourlyTextFamily.columnSets :
                \E k \in 0..MaxHourlyRows :
                   \E r \in [1..k -> FamilyRows(HourlyTextFamily, cols)] :
                      sheet_2hr = [found |-> TRUE, columns |-> cols, rows |-> r]

NextPage == tab_daily \/ tab_hourly

SpecPage == InitPage /\ [][NextPage]_vars

\* The three date buttons pressed in any order, the date picker left alone.
InitDate ==
    /\ pc = "input"
    /\ InitNav
    /\ InitClassifierIdle
    /\ InitDailyIdle
    /\ InitHourlyIdle

NextDate == PreviousDay \/ Today \/ NextDay

SpecDate == InitDate /\ [][NextDate]_vars

-----------------------------------------------------------------------------
(* Properties *)

Categories == Range(ordered_categories)

CategoryIndex(c) == CHOOSE k \in DOMAIN ordered_categories : ordered_categories[k] = c

\* The table of section 4.1: whether x lies in the range given for category c
InTableRange(c, x) ==
    CASE c = "No Rain" -> isna(x) \/ EqLit(x, 0)
      [] c = "Very Light" -> Gt(x, 0) /\ Le(x, 24)
      [] c = "Light" -> Gt(x, 24) /\ Le(x, 75)
      [] c = "Moderate" -> Gt(x, 75) /\ Le(x, 355)
      [] c = "Rather Heavy" -> Gt(x, 355) /\ Le(x, 644)
      [] c = "Heavy" -> Gt(x, 644) /\ Le(x, 1244)
      [] c = "Very Heavy" -> Gt(x, 1244) /\ Le(x, 2444)
      [] c = "Extremely Heavy" -> Gt(x, 2444) /\ Le(x, 3500)
      [] c = "Exceptional" -> Gt(x, 3500)

NonNegative(x) == ~isna(x) /\ x.num >= 0

\* C1: for a missing argument or a number v >= 0, classify_rainfall returns
\* one of the nine categories, and it is the one and only category whose
\* range in the table holds v (each boundary value in the lower category,
\* anything just above it in the next).
C1_ClassifyFollowsTable ==
    pc = "classified" =>
        \A k \in 1..2 :
            (isna(rainfall[k]) \/ NonNegative(rainfall[k])) =>
                /\ category[k] \in Categories
                /\ \A c \in Categories : InTableRange(c, rainfall[k]) <=> c = category[k]

\* classify(2.4) = Very Light and classify(2.40001) = Light
C1_Witness ==
    /\ pc = "classified"
    /\ rainfall[1] = Rat(24 * Denominator, Denominator)
    /\ category[1] = "Very Light"
    /\ rainfall[2] = Rat(24 * Denominator + 1, Denominator)
    /\ category[2] = "Light"

\* C2: for non-negative v1 < v2 the category of v1 is not after the category
\* of v2 in ordered_categories.
C2_ClassifyMonotone ==
    ( /\ pc = "classified"
      /\ NonNegative(rainfall[1])
      /\ NonNegative(rainfall[2])
      /\ NumLe(rainfall[1], rainfall[2])
      /\ ~NumEq(rainfall[1], rainfall[2]) )
    => CategoryIndex(category[1]) <= CategoryIndex(category[2])

C2_Witness ==
    /\ pc = "classified"
    /\ NonNegative(rainfall[1])
    /\ NumLe(rainfall[1], rainfall[2])
    /\ category[1] = "Moderate"
    /\ category[2] = "Rather Heavy"

\* The recognised slot columns of the 2-hourly worksheet
RecognisedSlots == sheet_2hr.columns \cap Range(time_slot_order)

\* The readings of row i: the recognised slots whose cell is a number
Readings(i) ==
    {c \in RecognisedSlots : sheet_2hr.rows[i].cells[c].kind \in {"number", "numstr"}}

RECURSIVE SumReadings(_, _)
SumReadings(i, slots) ==
    IF slots = {} THEN 0
    ELSE LET c == CHOOSE x \in slots : TRUE
         IN  sheet_2hr.rows[i].cells[c].val + SumReadings(i, slots \ {c})

\* C3: in the 2-hourly pipeline, when the table has time-slot columns, each
\* row's Total_mm is the sum of the row's non-missing values over the
\* recognised slot columns.
C3_TotalIsSumOfReadings ==
    pc = "hourly_rendered" =>
        /\ DOMAIN df_2hr = DOMAIN sheet_2hr.rows
        /\ \A i \in DOMAIN df_2hr :
              NumEq(df_2hr[i].Total_mm, Val(SumReadings(i, Readings(i))))

\* slots {3.0, missing, 5.0} give 8.0, which classifies as Moderate
C3_Witness ==
    /\ pc = "hourly_rendered"
    /\ \E i \in DOMAIN df_2hr :
          /\ RecognisedSlots = {"06TO08", "08TO10", "04TO06"}
          /\ sheet_2hr.rows[i].cells["06TO08"] = Number(30)
          /\ sheet_2hr.rows[i].cells["08TO10"] = Blank
          /\ sheet_2hr.rows[i].cells["04TO06"] = Number(50)
          /\ df_2hr[i].Total_mm = Val(80)
          /\ classify_rainfall(df_2hr[i].Total_mm) = "Moderate"

\* C4: a unit whose recognised slot values are all missing has a missing
\* total (not 0), is classified No Rain and is not the top taluka.
C4_AllMissingTotalIsMissing ==
    pc = "hourly_rendered" =>
        \A i \in DOMAIN df_2hr :
            Readings(i) = {} =>
                /\ isna(df_2hr[i].Total_mm)
                /\ classify_rainfall(df_2hr[i].Total_mm) = "No Rain"
                /\ top_taluka_row.index # i

\* C5: when the worksheet carries an explicit total column (TOTAL, or
\* Rain_Last_24_Hrs in the daily sheet), the per-unit total is that column's
\* value cast to a number, in the daily and in the 2-hourly pipeline.
C5_ExplicitTotalUsedVerbatim ==
    /\ pc = "daily_rendered" =>
          \A i \in DOMAIN df :
              \A h \in sheet_24hr.columns \cap {"TOTAL", "Total_mm", "Rain_Last_24_Hrs"} :
                  NumEq(df[i].Total_mm, to_numeric(sheet_24hr.rows[i].cells[h]))
    /\ pc = "hourly_rendered" =>
          \A i \in DOMAIN df_2hr :
              "TOTAL" \in sheet_2hr.columns =>
                  NumEq(df_2hr[i].Total_mm, to_numeric(sheet_2hr.rows[i].cells["TOTAL"]))

\* The units of district d, and those of them whose total is not missing
UnitsOf(d) == {i \in DOMAIN df : df[i].District = d}

Measured(I) == {i \in I : ~isna(df[i].Total_mm)}

\* a is the arithmetic mean of Total_mm over the measured units of I
IsMeanOf(a, I) ==
    /\ ~isna(a)
    /\ a.num * Cardinality(Measured(I)) = a.den * SumOver(Measured(I), Total_mm_of(df))

DistrictMeans ==
    /\ {g.District : g \in district_rainfall_avg_df} = {df[i].District : i \in DOMAIN df}
    /\ \A g \in district_rainfall_avg_df :
          /\ IF Measured(UnitsOf(g.District)) = {}
             THEN isna(g.District_Avg_Rain_Last_24_Hrs)
             ELSE IsMeanOf(g.District_Avg_Rain_Last_24_Hrs, UnitsOf(g.District))
          /\ g.Rainfall_Category = classify_rainfall(g.District_Avg_Rain_Last_24_Hrs)
          /\ Measured(UnitsOf(g.District)) = {} => g.Rainfall_Category = "No Rain"

\* C6 as claimed: district means and the state mean alike are the mean over
\* the units with a non-missing total, and missing (never 0) when there is
\* no such unit.
C6_MeansSkipMissing_Original ==
    pc = "daily_rendered" =>
        /\ DistrictMeans
        /\ IF Measured(DOMAIN df) = {} THEN isna(state_avg)
           ELSE IsMeanOf(state_avg, DOMAIN df)

\* C6 as amended: the district means are as claimed; the state mean is the
\* mean over the units with a non-missing total, and 0.0 when every total is
\* missing.
C6_MeansSkipMissing ==
    pc = "daily_rendered" =>
        /\ DistrictMeans
        /\ IF Measured(DOMAIN df) = {} THEN state_avg = Val(0)
           ELSE IsMeanOf(state_avg, DOMAIN df)

\* totals (10.0, 0.0, missing) of one district give the mean 5.0, Light
C6_Witness ==
    /\ pc = "daily_rendered"
    /\ Len(df) = 3
    /\ df[1].Total_mm = Val(100)
    /\ df[2].Total_mm = Val(0)
    /\ isna(df[3].Total_mm)
    /\ \E g \in district_rainfall_avg_df :
          /\ UnitsOf(g.District) = {1, 2, 3}
          /\ NumEq(g.District_Avg_Rain_Last_24_Hrs, Val(50))
          /\ g.Rainfall_Category = "Light"
    /\ NumEq(state_avg, Val(50))

Above(t) == {i \in DOMAIN df : ~isna(df[i].Total_mm) /\ df[i].Total_mm.num > t * df[i].Total_mm.den}

\* C7: each 'Talukas > T mm' count is the number of rows whose Total_mm is
\* strictly greater than T (a row at exactly T or with a missing total is
\* not counted), and every table that has a total column gets its counts.
C7_CountsStrictlyAbove ==
    /\ pc \in {"daily_rendered", "daily_KeyError"} =>
          /\ more_than_50_daily = Cardinality(Above(500))
          /\ more_than_100_daily = Cardinality(Above(1000))
          /\ more_than_200_daily = Cardinality(Above(2000))
    /\ ( /\ pc # "input"
         /\ sheet_24hr.found
         /\ sheet_24hr.rows # << >>
         /\ sheet_24hr.columns \cap {"TOTAL", "Total_mm", "Rain_Last_24_Hrs"} # {} )
       => pc \in {"daily_rendered", "daily_KeyError"}

C7_Witness ==
    /\ pc = "daily_rendered"
    /\ \E i, j, k \in DOMAIN df :
          /\ df[i].Total_mm = Val(500)
          /\ df[j].Total_mm = Val(501)
          /\ isna(df[k].Total_mm)
    /\ more_than_50_daily = 1
    /\ more_than_100_daily = 0

Min(a, b) == IF a < b THEN a ELSE b

TopIndices == {df_top_10[k].index : k \in DOMAIN df_top_10}

\* C8: the top-10 ranking holds only units with a non-missing Total_mm, has
\* min(10, number of such units) rows, never increases, and no unit left out
\* has a total above that of a unit included.
C8_TopTenRanking ==
    pc = "daily_rendered" =>
        /\ \A k \in DOMAIN df_top_10 :
              /\ df_top_10[k].index \in Measured(DOMAIN df)
              /\ df_top_10[k] = df[df_top_10[k].index]
        /\ Len(df_top_10) = Min(10, Cardinality(Measured(DOMAIN df)))
        /\ Cardinality(TopIndices) = Len(df_top_10)
        /\ \A k \in 1..(Len(df_top_10) - 1) :
              NumLe(df_top_10[k + 1].Total_mm, df_top_10[k].Total_mm)
        /\ \A i \in Measured(DOMAIN df) \ TopIndices : \A k \in DOMAIN df_top_10 :
              NumLe(df[i].Total_mm, df_top_10[k].Total_mm)

\* eleven units with a total, the tenth and the one left out tied
C8_Witness ==
    /\ pc = "daily_rendered"
    /\ Len(df_top_10) = 10
    /\ Cardinality(Measured(DOMAIN df)) = 11
    /\ \E i \in Measured(DOMAIN df) \ TopIndices :
          NumEq(df[i].Total_mm, df_top_10[10].Total_mm)
    /\ ~NumEq(df_top_10[1].Total_mm, df_top_10[10].Total_mm)

\* Taluka names in ascending order
TalukaRank(name) == CHOOSE k \in DOMAIN TalukaList : TalukaList[k] = name

\* C9: in the top-10 ranking, units with equal Total_mm come in ascending
\* order of taluka name (so that the ranking does not depend on the order of
\* the rows).
C9_TiesByName ==
    pc = "daily_rendered" =>
        \A k \in 1..(Len(df_top_10) - 1) :
            NumEq(df_top_10[k].Total_mm, df_top_10[k + 1].Total_mm) =>
                TalukaRank(df_top_10[k].Taluka) <= TalukaRank(df_top_10[k + 1].Taluka)

\* The slots of the fixed order that have a reading in some row
SlotsWithData ==
    {k \in DOMAIN time_slot_order :
        /\ time_slot_order[k] \in RecognisedSlots
        /\ \E i \in DOMAIN sheet_2hr.rows : time_slot_order[k] \in Readings(i)}

LastSlotWithData ==
    time_slot_order[CHOOSE k \in SlotsWithData : \A j \in SlotsWithData : j <= k]

\* C10: the slot reported as latest is the last slot of the fixed order that
\* has a reading; a non-empty table with no reading in any slot, or with no
\* recognised slot column, ends in an explicit no-data outcome, not in a slot
\* label and not in an unhandled exception.
C10_LatestSlotHasData ==
    (pc # "input" /\ sheet_2hr.found /\ sheet_2hr.rows # << >>) =>
        IF SlotsWithData # {}
        THEN pc = "hourly_rendered" /\ last_slot_label = slot_labels(LastSlotWithData)
        ELSE pc = "hourly_no_data" /\ last_slot_label = ""

\* C11: the long form has exactly one row for each (district, taluka, slot)
\* with at least one non-missing reading in the wide table and none for a
\* combination whose readings are all missing; the row's value is the sum of
\* the non-missing readings of all wide rows of that district and taluka,
\* where taluka names that differ only by surrounding whitespace are one unit.
SameUnitName(a, b) == a = b \/ {a, b} \subseteq {"Mandvi", " Mandvi", "Mandvi "}

Contributing(i, slot) ==
    {j \in DOMAIN df_2hr :
        /\ df_2hr[j].District = df_2hr[i].District
        /\ SameUnitName(df_2hr[j].Taluka, df_2hr[i].Taluka)
        /\ ~isna(df_2hr[j].slots[slot])}

LongRows(i, slot) ==
    {p \in DOMAIN df_long :
        /\ df_long[p].District = df_2hr[i].District
        /\ SameUnitName(df_long[p].Taluka, df_2hr[i].Taluka)
        /\ df_long[p].Time_Slot = slot}

RECURSIVE SlotSum(_, _)
SlotSum(js, slot) ==
    IF js = {} THEN 0
    ELSE LET j == CHOOSE x \in js : TRUE
         IN  df_2hr[j].slots[slot].num + SlotSum(js \ {j}, slot)

C11_LongFormRows ==
    pc = "hourly_rendered" =>
        /\ \A i \in DOMAIN df_2hr : \A slot \in Range(existing_order) :
              IF Contributing(i, slot) = {}
              THEN LongRows(i, slot) = {}
              ELSE /\ Cardinality(LongRows(i, slot)) = 1
                   /\ \A p \in LongRows(i, slot) :
                         df_long[p].Rainfall_mm = Val(SlotSum(Contributing(i, slot), slot))
        /\ \A p \in DOMAIN df_long :
              \E i \in DOMAIN df_2hr : p \in LongRows(i, df_long[p].Time_Slot)

C11_Witness ==
    /\ pc = "hourly_rendered"
    /\ Len(df_2hr) = 2
    /\ df_2hr[1].District = df_2hr[2].District
    /\ df_2hr[1].Taluka = "Mandvi"
    /\ df_2hr[2].Taluka = " Mandvi"
    /\ df_2hr[1].slots["06TO08"] = Val(20)
    /\ df_2hr[2].slots["06TO08"] = Val(20)
    /\ isna(df_2hr[1].slots["08TO10"])
    /\ isna(df_2hr[2].slots["08TO10"])
    /\ Len(df_long) = 1
    /\ df_long[1].Rainfall_mm = Val(40)

\* C12 as stated: within each unit the long form lists the slots in the fixed
\* chronological order, and the units appear in the order of their first row
\* in the wide table.
SlotIndex(slot) == CHOOSE k \in DOMAIN time_slot_order : time_slot_order[k] = slot

SameUnit(p, q) ==
    /\ df_long[p].District = df_long[q].District
    /\ df_long[p].Taluka = df_long[q].Taluka

Least(S) == CHOOSE x \in S : \A y \in S : x <= y

FirstLong(p) == Least({q \in DOMAIN df_long : SameUnit(p, q)})

FirstWide(p) ==
    Least({i \in DOMAIN df_2hr :
            /\ df_2hr[i].District = df_long[p].District
            /\ SameUnitName(df_2hr[i].Taluka, df_long[p].Taluka)})

ChronologicalWithinUnit ==
    \A p, q \in DOMAIN df_long :
        (p < q /\ SameUnit(p, q)) =>
            SlotIndex(df_long[p].Time_Slot) < SlotIndex(df_long[q].Time_Slot)

C12_InputOrderKept_Original ==
    pc = "hourly_rendered" =>
        /\ ChronologicalWithinUnit
        /\ \A p, q \in DOMAIN df_long :
              FirstWide(p) < FirstWide(q) => FirstLong(p) < FirstLong(q)

\* C12, amended: the long form is in ascending order of taluka name, rows of
\* one taluka name are in chronological slot order, and so within each unit
\* the slots are chronological; the order of the wide table plays no part.
C12_OrderedByTalukaThenSlot ==
    pc = "hourly_rendered" =>
        /\ ChronologicalWithinUnit
        /\ \A p, q \in DOMAIN df_long :
              p < q =>
                 /\ TalukaRank(df_long[p].Taluka) <= TalukaRank(df_long[q].Taluka)
                 /\ df_long[p].Taluka = df_long[q].Taluka =>
                        SlotIndex(df_long[p].Time_Slot) <= SlotIndex(df_long[q].Time_Slot)

C12_Witness ==
    /\ pc = "hourly_rendered"
    /\ Len(df_2hr) = 2
    /\ df_2hr[1].Taluka = "Mandvi"
    /\ df_2hr[2].Taluka = "Amod"
    /\ df_2hr[1].District = "Kutch"
    /\ df_2hr[2].District = "Surat"
    /\ Len(df_long) = 4
    /\ df_long[1].Taluka = "Amod"
    /\ df_long[1].Time_Slot = "06TO08"
    /\ df_long[2].Time_Slot = "08TO10"
    /\ df_long[3].Taluka = "Mandvi"

\* C13: for every unit, the sum of its long-form slot values equals the
\* Total_mm the long form carries for that unit and the Total_mm the wide
\* table shows for it, duplicate rows of a unit included.
RECURSIVE LongSum(_)
LongSum(ps) ==
    IF ps = {} THEN 0
    ELSE LET p == CHOOSE x \in ps : TRUE
         IN  df_long[p].Rainfall_mm.num + LongSum(ps \ {p})

UnitSum(p) == Val(LongSum({q \in DOMAIN df_long : SameUnit(p, q)}))

C13_LongSumIsUnitTotal ==
    pc = "hourly_rendered" =>
        \A p \in DOMAIN df_long :
            /\ df_long[p].Total_mm = UnitSum(p)
            /\ \A i \in DOMAIN df_2hr :
                  (/\ df_2hr[i].District = df_long[p].District
                   /\ SameUnitName(df_2hr[i].Taluka, df_long[p].Taluka)) =>
                      df_2hr[i].Total_mm = UnitSum(p)

\* C14: a cell of Total_mm or of a recognised slot column that cannot be read
\* as a number is treated as missing and aborts nothing: every result equals
\* the result for the same worksheet with that cell empty.
TotalAndSlotColumns == {"Total_mm", "TOTAL", "Rain_Last_24_Hrs"} \cup Range(time_slot_order)

Unparseable(sheet) ==
    {<<i, c>> \in (DOMAIN sheet.rows) \X (sheet.columns \cap TotalAndSlotColumns) :
        sheet.rows[i].cells[c] = Text}

SetToMissing(sheet) ==
    [sheet EXCEPT !.rows =
        [i \in DOMAIN sheet.rows |->
            [sheet.rows[i] EXCEPT !.cells =
                [c \in sheet.columns |->
                    IF <<i, c>> \in Unparseable(sheet) THEN Blank
                    ELSE sheet.rows[i].cells[c]]]]]

HasTotalColumn(sheet) ==
    sheet.columns \cap {"Total_mm", "TOTAL", "Rain_Last_24_Hrs"} # {}

C14_UnparseableIsMissing ==
    /\ (pc \in {"daily_warning", "daily_error", "daily_rendered"}
          /\ sheet_24hr.rows # << >> /\ HasTotalColumn(sheet_24hr)) =>
          LET other == daily_frame(load_sheet_data(SetToMissing(sheet_24hr)))
          IN  /\ pc = "daily_rendered"
              /\ df = other
              /\ state_avg = state_avg_of(other)
              /\ more_than_200_daily = count_gt(Total_mm_of(other), 2000)
              /\ more_than_100_daily = count_gt(Total_mm_of(other), 1000)
              /\ more_than_50_daily = count_gt(Total_mm_of(other), 500)
              /\ district_rainfall_avg_df = district_avg(other)
              /\ \E order \in top_orders(other) :
                    df_top_10 = [k \in DOMAIN head_10(order) |-> other[order[k]]]
    /\ (pc \in {"hourly_warning", "hourly_IndexError", "hourly_rendered"}
          /\ sheet_2hr.rows # << >>) =>
          LET loaded == load_sheet_data(SetToMissing(sheet_2hr))
              other == hourly_frame(loaded)
          IN  /\ pc # "hourly_warning"
              /\ existing_order = existing_order_of(loaded)
              /\ df_2hr = other
              /\ df_long = long_form(other, existing_order)
              /\ pc = "hourly_rendered" =>
                    /\ top_taluka_row \in top_rows(other)
                    /\ num_talukas_with_rain_hourly = count_gt(Total_mm_of(other), 0)

C14_Witness ==
    /\ pc = "daily_rendered"
    /\ Len(sheet_24hr.rows) = 2
    /\ sheet_24hr.columns = {"Total_mm"}
    /\ sheet_24hr.rows[1].cells["Total_mm"] = Text
    /\ sheet_24hr.rows[2].cells["Total_mm"] = Number(100)
    /\ isna(df[1].Total_mm)
    /\ state_avg = Val(100)

\* C15: a column whose name is not one of the twelve slot names is ignored by
\* the 2-hourly tab: it adds to no total, gives no long-form row, is never
\* the latest slot, and every result equals the result for the worksheet
\* without that column.
WithoutUnknownColumns(sheet) ==
    [sheet EXCEPT
        !.columns = sheet.columns \cap Range(time_slot_order),
        !.rows = [i \in DOMAIN sheet.rows |->
                    [sheet.rows[i] EXCEPT !.cells =
                        [c \in sheet.columns \cap Range(time_slot_order) |->
                            sheet.rows[i].cells[c]]]]]

C15_UnknownColumnsIgnored ==
    pc \in {"hourly_IndexError", "hourly_rendered"} =>
        LET loaded == load_sheet_data(WithoutUnknownColumns(sheet_2hr))
            other == hourly_frame(loaded)
        IN  /\ Range(existing_order) \subseteq Range(time_slot_order)
            /\ existing_order = existing_order_of(loaded)
            /\ df_2hr = other
            /\ df_long = long_form(other, existing_order)
            /\ \A p \in DOMAIN df_long : df_long[p].Time_Slot \in sheet_2hr.columns
            /\ pc = "hourly_IndexError" <=> existing_order = << >>
            /\ pc = "hourly_rendered" =>
                  /\ top_taluka_row \in top_rows(other)
                  /\ num_talukas_with_rain_hourly = count_gt(Total_mm_of(other), 0)
                  /\ last_slot_label = slot_labels(existing_order[Len(existing_order)])

C15_Witness ==
    /\ pc = "hourly_rendered"
    /\ sheet_2hr.columns = {"06TO08", "10TO11"}
    /\ Len(sheet_2hr.rows) = 1
    /\ sheet_2hr.rows[1].cells["06TO08"] = Number(30)
    /\ sheet_2hr.rows[1].cells["10TO11"] = Number(30)
    /\ df_2hr[1].Total_mm = Val(30)
    /\ Len(df_long) = 1
    /\ last_slot_label = "6-8 AM"

\* C16: an empty input table raises nothing and reaches no aggregation: a
\* worksheet that cannot be loaded, or has no rows, gives the "data is not
\* available" warning of its tab, and neither show_24_hourly_dashboard nor
\* the slot reshape has run.
NoData(sheet) == ~sheet.found \/ sheet.rows = << >>

C16_EmptyTableOnlyWarns ==
    /\ (pc \in {"daily_warning", "daily_error", "daily_rendered"} /\ NoData(sheet_24hr)) =>
          /\ pc = "daily_warning"
          /\ InitDailyResults
    /\ (pc \in {"hourly_warning", "hourly_IndexError", "hourly_rendered"}
          /\ NoData(sheet_2hr)) =>
          /\ pc = "hourly_warning"
          /\ InitHourlyResults
    /\ pc = "daily_warning" => NoData(sheet_24hr)
    /\ pc = "hourly_warning" => NoData(sheet_2hr)

C16_Witness ==
    /\ pc = "hourly_warning"
    /\ sheet_2hr.found
    /\ sheet_2hr.columns = {"06TO08"}
    /\ sheet_2hr.rows = << >>
    /\ df_long = << >>

\* C17: get_zonal_data raises nothing on the table show_24_hourly_dashboard
\* hands it: when one of the five required columns has no match it returns
\* an empty table, and when all five are matched it returns one row per
\* distinct zone, with the per-zone mean of the last-24-hours column the
\* caller supplies as Rain_Last_24_Hrs among its means.
RequiredMatched ==
    \A name \in required_cols_map :
        \E col \in sheet_24hr.columns : clean_col(col) = name

ZonesOfSheet == {sheet_24hr.rows[i].cells["Zone"] : i \in DOMAIN sheet_24hr.rows}

RowsOfZone(z) == {i \in DOMAIN sheet_24hr.rows : sheet_24hr.rows[i].cells["Zone"] = z}

C17_ZonalMeans ==
    pc \in {"daily_rendered", "daily_KeyError"} =>
        /\ ~zonal_summary_averages.raised
        /\ IF ~RequiredMatched
           THEN zonal_summary_averages.empty
           ELSE /\ ~zonal_summary_averages.empty
                /\ Cardinality(zonal_summary_averages.rows) = Cardinality(ZonesOfSheet)
                /\ \A z \in ZonesOfSheet :
                      Measured(RowsOfZone(z)) # {} =>
                         \E row \in zonal_summary_averages.rows :
                            IsMeanOf(row.means["rain_last_24_hrs"], RowsOfZone(z))

\* C18: classify_rainfall returns "No Rain" exactly when its argument is
\* missing or equal to 0 and "Very Light" exactly when 0 < v <= 2.4; a
\* negative number is classified "Light".
C18_NoRainAndNegatives ==
    pc = "classified" =>
        \A k \in 1..2 :
            /\ category[k] = "No Rain" <=> (isna(rainfall[k]) \/ rainfall[k].num = 0)
            /\ category[k] = "Very Light" <=>
                  (/\ ~isna(rainfall[k])
                   /\ rainfall[k].num > 0
                   /\ rainfall[k].num <= 24 * rainfall[k].den)
            /\ (~isna(rainfall[k]) /\ rainfall[k].num < 0) => category[k] = "Light"

C18_Witness ==
    /\ pc = "classified"
    /\ ~isna(rainfall[1])
    /\ rainfall[1].num = -50 * rainfall[1].den
    /\ category[1] = "Light"
    /\ isna(rainfall[2])
    /\ category[2] = "No Rain"

\* C19: whatever classify_rainfall returns is a key of color_map, a key of
\* category_ranges and an element of ordered_categories; the three hold the
\* same nine labels, and ordered_categories lists them without repetition in
\* increasing intensity.
C19_LabelsClosed ==
    pc = "classified" =>
        /\ \A k \in 1..2 :
              /\ category[k] \in dict_keys(color_map)
              /\ category[k] \in dict_keys(category_ranges)
              /\ category[k] \in Range(ordered_categories)
        /\ dict_keys(color_map) = Range(ordered_categories)
        /\ dict_keys(category_ranges) = Range(ordered_categories)
        /\ Cardinality(Range(ordered_categories)) = 9
        /\ Len(ordered_categories) = 9
        /\ Len(color_map) = 9
        /\ Len(category_ranges) = 9
        /\ ( /\ NonNegative(rainfall[1])
             /\ NonNegative(rainfall[2])
             /\ category[1] # category[2]
             /\ NumLe(rainfall[1], rainfall[2]) )
           => \E i, j \in DOMAIN ordered_categories :
                 /\ ordered_categories[i] = category[1]
                 /\ ordered_categories[j] = category[2]
                 /\ i < j

C19_Witness ==
    /\ pc = "classified"
    /\ category[1] = "Extremely Heavy"
    /\ category[2] = "No Rain"
    /\ rainfall[1].num = 3500 * rainfall[1].den

\* C20: with the date changed only by the three buttons, selected_date is
\* never later than today, Next Day acts only on a date before today,
\* Previous Day followed by Next Day gives back the date it started from, and
\* Today always sets selected_date to today.
LastPress == nav_history[Len(nav_history)]

C20_ButtonsStayInPast ==
    /\ selected_date <= today
    /\ nav_history # << >> =>
          /\ LastPress.button = "today_btn" => selected_date = today
          /\ LastPress.button = "next_day_btn" =>
                (LastPress.from < today /\ selected_date = LastPress.from + 1)
          /\ LastPress.button = "prev_day_btn" => selected_date = LastPress.from - 1
    /\ ( /\ Len(nav_history) = 2
         /\ nav_history[1].button = "prev_day_btn"
         /\ nav_history[2].button = "next_day_btn" )
       => selected_date = nav_history[1].from

C20_Witness ==
    /\ Len(nav_history) = 2
    /\ nav_history[1] = [button |-> "prev_day_btn", from |-> today - 1]
    /\ nav_history[2] = [button |-> "next_day_btn", from |-> today - 2]
    /\ selected_date = today - 1

====
